---- MODULE Spec2Model ----
(***************************************************************************)
(* A model of routeml/utils.py: the route/solution codec, the feasibility  *)
(* check, the cost function's input dispatch, the in-place depot padding,  *)
(* the VRPLIB header extraction and the random solution generator.         *)
(*                                                                         *)
(* Python lists are sequences (Python index i is TLA+ index i + 1).  A     *)
(* call that raises is a result record whose err field names the           *)
(* exception.                                                              *)
(***************************************************************************)
EXTENDS Integers, Sequences, FiniteSets, TLC

VARIABLES
    pc,         \* position of the running call
    given,      \* which form of input the caller handed in
    routes,     \* codec / feasibility: the list of routes handed in
    solution,   \* codec: the flat solution
    demand,     \* is_feasible: the demand table (a dict keyed by node)
    capacity,   \* is_feasible: the vehicle capacity
    arg,        \* get_cvrp_cost: routes_or_solution
    heap,       \* add_depot_to_routes: the list objects, by identity
    heap0,      \* add_depot_to_routes: the list objects before the call
    param,      \* add_depot_to_routes: the argument (a reference)
    N,          \* get_random_solution: the number of customers
    lst,        \* get_random_solution: the list being built
    num_zeros,  \* get_random_solution: depots to insert
    inserted,   \* get_random_solution: iterations of the for loop done
    index,      \* get_random_solution: the index drawn last
    lines,      \* parse_vrplib_file: the header lines the file is made of
    content,    \* parse_vrplib_file: the text of the file
    data,       \* parse_vrplib_file: the dictionary being returned
    result      \* the value (or exception) the last call produced

codecVars == <<given, routes, solution>>
feasVars == <<demand, capacity>>
costVars == <<arg>>
depotVars == <<heap, heap0, param>>

randomVars == <<N, lst, num_zeros, inserted, index>>

parseVars == <<lines, content, data>>

vars ==
    <<pc, codecVars, feasVars, costVars, depotVars, randomVars, parseVars,
      result>>

----------------------------------------------------------------------------
(* Bounds of the input domains *)

MaxNode == 2        \* customers are 1..MaxNode, the depot is 0
MaxInterior == 2    \* nodes between the two depots of an input route
MaxRoutes == 2      \* routes in an input list
MaxSolLen == 4      \* length of a flat solution handed in directly
MaxFeasLen == 7     \* is_feasible: nodes in all routes of an input together
MaxCapacity == 3    \* is_feasible: largest vehicle capacity tried
MaxObjs == 2        \* add_depot_to_routes: route objects on the heap
MaxN == 7           \* get_random_solution: largest N tried

Nodes == 0..MaxNode
Customers == 1..MaxNode

SeqsUpTo(S, n) == UNION {[1..k -> S] : k \in 0..n}

Ok(v) == [err |-> "none", val |-> v]
Raise(e) == [err |-> e, val |-> <<>>]
NoResult == [err |-> "pending", val |-> <<>>]

----------------------------------------------------------------------------
(* routes_to_solution, utils.py 7-25 *)

RECURSIVE routes_to_solution_loop(_, _, _)
routes_to_solution_loop(rs, i, sol) ==
    IF i > Len(rs) THEN Ok(sol)
    ELSE LET route == rs[i] IN
         IF route = <<>> THEN Raise("IndexError")
         ELSE IF route[1] # 0 THEN Raise("AssertionError")
         ELSE IF route[Len(route)] # 0 THEN Raise("AssertionError")
         ELSE routes_to_solution_loop(rs, i + 1,
                  sol \o (IF i > 1 THEN Tail(route) ELSE route))

\* routes_to_solution without the "if i > 0" strip of the leading depot
RECURSIVE routes_to_solution_nostrip_loop(_, _, _)
routes_to_solution_nostrip_loop(rs, i, sol) ==
    IF i > Len(rs) THEN Ok(sol)
    ELSE LET route == rs[i] IN
         IF route = <<>> THEN Raise("IndexError")
         ELSE IF route[1] # 0 THEN Raise("AssertionError")
         ELSE IF route[Len(route)] # 0 THEN Raise("AssertionError")
         ELSE routes_to_solution_nostrip_loop(rs, i + 1, sol \o route)

routes_to_solution_nostrip(rs) == routes_to_solution_nostrip_loop(rs, 1, <<>>)

\* routes_to_solution that strips the leading depot of the first route too
\* (the test "i > 0" dropped)
routes_to_solution_stripall(rs) ==
    LET r == routes_to_solution_loop(rs, 1, <<>>) IN
    IF r.err = "none" /\ r.val # <<>> THEN Ok(Tail(r.val)) ELSE r

routes_to_solution(rs) == routes_to_solution_loop(rs, 1, <<>>)

(* solution_to_routes, utils.py 52-70 *)

RECURSIVE solution_to_routes_loop(_, _, _, _)
solution_to_routes_loop(sol, i, rs, route) ==
    IF i > Len(sol) THEN rs
    ELSE LET node == sol[i] IN
         IF node = 0 /\ route # <<>>
         THEN solution_to_routes_loop(sol, i + 1,
                  Append(rs, Append(route, 0)), <<node>>)
         ELSE solution_to_routes_loop(sol, i + 1, rs, Append(route, node))

\* solution_to_routes that closes a route without appending the depot
RECURSIVE solution_to_routes_noclose_loop(_, _, _, _)
solution_to_routes_noclose_loop(sol, i, rs, route) ==
    IF i > Len(sol) THEN rs
    ELSE LET node == sol[i] IN
         IF node = 0 /\ route # <<>>
         THEN solution_to_routes_noclose_loop(sol, i + 1,
                  Append(rs, route), <<node>>)
         ELSE solution_to_routes_noclose_loop(sol, i + 1, rs,
                  Append(route, node))

solution_to_routes_noclose(sol) ==
    solution_to_routes_noclose_loop(sol, 1, <<>>, <<>>)

solution_to_routes(sol) == solution_to_routes_loop(sol, 1, <<>>, <<>>)

----------------------------------------------------------------------------
(* Input domains of the codec *)

Interiors == SeqsUpTo(Nodes, MaxInterior)

\* Depot-bounded routes (interior depots included), the one-element route
\* [0], and routes the assertions of routes_to_solution reject.
RouteSet ==
    {<<0>> \o m \o <<0>> : m \in Interiors}
        \cup {<<>>, <<0>>}
        \cup {<<c>> : c \in Customers}
        \cup {<<0, c>> : c \in Customers}

RouteLists == SeqsUpTo(RouteSet, MaxRoutes)

Solutions == SeqsUpTo(Nodes, MaxSolLen)

----------------------------------------------------------------------------
(* The codec as a state machine: a caller holds either a list of routes or *)
(* a flat solution; routes are flattened, solutions are split.             *)

FeasIdle == demand = <<>> /\ capacity = 0
CostIdle == arg = [type |-> "none"]
DepotIdle == heap = <<>> /\ heap0 = <<>> /\ param = 0
RandomIdle ==
    N = 0 /\ lst = <<>> /\ num_zeros = 0 /\ inserted = 0 /\ index = 0
ParseIdle == lines = <<>> /\ content = "" /\ data = <<>>

InitCodec ==
    /\ result = NoResult
    /\ FeasIdle /\ CostIdle /\ DepotIdle /\ RandomIdle /\ ParseIdle
    /\ \/ /\ pc = "routes"
          /\ given = "routes"
          /\ routes \in RouteLists
          /\ solution = <<>>
       \/ /\ pc = "solution"
          /\ given = "solution"
          /\ routes = <<>>
          /\ solution \in Solutions

RoutesToSolution ==
    /\ pc = "routes"
    /\ LET r == routes_to_solution(routes) IN
         IF r.err = "none"
         THEN /\ solution' = r.val
              /\ pc' = "solution"
              /\ result' = result
         ELSE /\ result' = r
              /\ pc' = "raised"
              /\ solution' = solution
    /\ UNCHANGED <<given, routes, feasVars, costVars, depotVars, randomVars, parseVars>>

SolutionToRoutes ==
    /\ pc = "solution"
    /\ result' = Ok(solution_to_routes(solution))
    /\ pc' = "done"
    /\ UNCHANGED <<given, routes, solution, feasVars, costVars, depotVars, randomVars, parseVars>>

NextCodec == RoutesToSolution \/ SolutionToRoutes

Spec == InitCodec /\ [][NextCodec]_vars

----------------------------------------------------------------------------
(* Properties of the codec *)

DepotBounded(route) ==
    /\ route # <<>>
    /\ route[1] = 0
    /\ route[Len(route)] = 0

NoInternalDepot(route) == \A j \in 2..(Len(route) - 1) : route[j] # 0

AllRoutes(rs, P(_)) == \A i \in 1..Len(rs) : P(rs[i])

ValidRoute(route) == DepotBounded(route) /\ NoInternalDepot(route)

ValidRoute2(route) == ValidRoute(route) /\ Len(route) >= 2

\* C1 as stated: for every list of nonempty routes with depot 0 first and
\* last and no depot inside, solution_to_routes(routes_to_solution(R)) = R.
C1_RoundTripAsStated ==
    (given = "routes" /\ pc = "done" /\ AllRoutes(routes, ValidRoute))
        => result.val = routes

\* C1 amended: the round trip returns R when, in addition, every route has
\* at least two elements (its first and last depot are distinct elements).
C1_RoundTrip ==
    (given = "routes" /\ pc = "done" /\ AllRoutes(routes, ValidRoute2))
        => result.val = routes

C1_Witness ==
    /\ given = "routes" /\ pc = "done"
    /\ AllRoutes(routes, ValidRoute2)
    /\ Len(routes) = 2
    /\ Len(routes[1]) = 4 /\ Len(routes[2]) = 3
    /\ result.val = routes

DepotIndices(sol) == {i \in 1..Len(sol) : sol[i] = 0}

\* the k-th smallest element of a finite set of integers
KthOf(S, k) == CHOOSE x \in S : Cardinality({y \in S : y <= x}) = k

StartsAndEndsWithDepot(route) == DepotBounded(route) /\ Len(route) >= 2

\* C4 as stated: for any flat solution every emitted route starts and ends
\* with depot 0.
C4_EmittedRoutesAsStated ==
    pc = "done" => AllRoutes(result.val, StartsAndEndsWithDepot)

\* C4 amended: for every flat solution whose first element is depot 0,
\* every emitted route starts and ends with depot 0, and the routes are the
\* splits of the input on its depot occurrences: the k-th route is the
\* input from its k-th depot to its (k+1)-th depot, both included.
C4_EmittedRoutes ==
    (pc = "done" /\ solution # <<>> /\ solution[1] = 0) =>
        LET D == DepotIndices(solution) IN
        /\ AllRoutes(result.val, StartsAndEndsWithDepot)
        /\ Len(result.val) = Cardinality(D) - 1
        /\ \A k \in 1..Len(result.val) :
              result.val[k] = SubSeq(solution, KthOf(D, k), KthOf(D, k + 1))

C4_Witness ==
    /\ pc = "done" /\ given = "solution"
    /\ Len(solution) = 4 /\ solution[1] = 0 /\ solution[3] = 0
    /\ solution[2] # 0 /\ solution[4] # 0
    /\ Len(result.val) = 1

RECURSIVE Offset(_, _)
\* where route i starts in the flat solution, less one: consecutive routes
\* share one depot element
Offset(rs, i) == IF i = 1 THEN 0 ELSE Offset(rs, i - 1) + Len(rs[i - 1]) - 1

Flattened(rs, sol) ==
    /\ \A i \in 1..Len(rs) : \A j \in 1..Len(rs[i]) :
           /\ Offset(rs, i) + j \in 1..Len(sol)
           /\ sol[Offset(rs, i) + j] = rs[i][j]
    /\ Len(sol) = Offset(rs, Len(rs)) + Len(rs[Len(rs)])
    /\ SubSeq(sol, 1, Len(rs[1])) = rs[1]
    /\ sol[1] = 0 /\ sol[Len(sol)] = 0

\* C5 as stated: for every list of depot-bounded routes the result is the
\* first route followed by the later routes without their leading depot,
\* and it starts and ends with depot 0.
C5_FlattenAsStated ==
    (given = "routes" /\ pc = "solution" /\ AllRoutes(routes, DepotBounded))
        => /\ solution # <<>>
           /\ Flattened(routes, solution)

\* C5 amended: the same for every nonempty list of depot-bounded routes;
\* element j of route i sits at Offset(i) + j of the result, so that the
\* last depot of a route and the first depot of the next are one element.
C5_Flatten ==
    (given = "routes" /\ pc = "solution" /\ routes # <<>>
        /\ AllRoutes(routes, DepotBounded))
        => Flattened(routes, solution)

\* the scenario routes_to_solution([[0,1,2,0],[0,3,0]]) with customers
\* renamed into the model's range
C5_Witness ==
    /\ given = "routes" /\ pc = "solution"
    /\ routes = <<(<<0, 1, 2, 0>>), (<<0, 1, 0>>)>>
    /\ solution = <<0, 1, 2, 0, 1, 0>>


----------------------------------------------------------------------------
(* get_route_demand, utils.py 255-274 *)

RECURSIVE SumDemand(_, _, _)
\* route_demand += demand[node] over route[i..]; a node without an entry
\* makes the lookup fail, reported as -1
SumDemand(route, i, dem) ==
    IF i > Len(route) THEN 0
    ELSE IF route[i] \notin DOMAIN dem THEN -1
    ELSE LET rest == SumDemand(route, i + 1, dem) IN
         IF rest = -1 THEN -1 ELSE dem[route[i]] + rest

get_route_demand(rs, dem) ==
    IF \E i \in 1..Len(rs) : SumDemand(rs[i], 1, dem) = -1
    THEN Raise("Exception")
    ELSE Ok([i \in 1..Len(rs) |-> SumDemand(rs[i], 1, dem)])

(* is_feasible, utils.py 276-301 *)

SetOf(seq) == {seq[i] : i \in 1..Len(seq)}

RECURSIVE capacity_loop(_, _, _, _)
capacity_loop(rs, i, dem, cap) ==
    IF i > Len(rs) THEN TRUE
    ELSE IF SumDemand(rs[i], 1, dem) > cap THEN FALSE
    ELSE capacity_loop(rs, i + 1, dem, cap)

\* the capacity loop with "total_demand >= capacity" for the comparison
RECURSIVE capacity_loop_ge(_, _, _, _)
capacity_loop_ge(rs, i, dem, cap) ==
    IF i > Len(rs) THEN TRUE
    ELSE IF SumDemand(rs[i], 1, dem) >= cap THEN FALSE
    ELSE capacity_loop_ge(rs, i + 1, dem, cap)

is_feasible_ge(rs, dem, cap) ==
    LET s == routes_to_solution(rs) IN
    IF s.err # "none" THEN s
    ELSE IF SetOf(s.val) # DOMAIN dem THEN Ok(FALSE)
    ELSE Ok(capacity_loop_ge(rs, 1, dem, cap))

is_feasible(rs, dem, cap) ==
    LET s == routes_to_solution(rs) IN
    IF s.err # "none" THEN s
    ELSE IF SetOf(s.val) # DOMAIN dem THEN Ok(FALSE)
    ELSE Ok(capacity_loop(rs, 1, dem, cap))

----------------------------------------------------------------------------
(* is_feasible as a state machine: one call on a drawn input *)

RECURSIVE TotalLen(_, _)
TotalLen(rs, i) == IF i > Len(rs) THEN 0 ELSE Len(rs[i]) + TotalLen(rs, i + 1)

FeasLists == {rl \in RouteLists : TotalLen(rl, 1) <= MaxFeasLen}

\* a demand table over any set of nodes; the depot demands 0 and customer
\* n demands n
DemandTables == {[n \in K |-> n] : K \in SUBSET Nodes}

InitFeasible ==
    /\ pc = "is_feasible"
    /\ given = "routes"
    /\ routes \in FeasLists
    /\ solution = <<>>
    /\ demand \in DemandTables
    /\ capacity \in 0..MaxCapacity
    /\ CostIdle /\ DepotIdle /\ RandomIdle /\ ParseIdle
    /\ result = NoResult

IsFeasible ==
    /\ pc = "is_feasible"
    /\ result' = is_feasible(routes, demand, capacity)
    /\ pc' = IF result'.err = "none" THEN "done" ELSE "raised"
    /\ UNCHANGED <<codecVars, feasVars, costVars, depotVars, randomVars, parseVars>>

NextFeasible == IsFeasible

SpecFeasible == InitFeasible /\ [][NextFeasible]_vars

----------------------------------------------------------------------------
(* Properties of is_feasible *)

Visited(rs) == UNION {SetOf(rs[i]) : i \in 1..Len(rs)}

NodeSetDiffers == Visited(routes) # DOMAIN demand

SomeRouteExceeds ==
    LET d == get_route_demand(routes, demand) IN
    /\ d.err = "none"
    /\ \E i \in 1..Len(routes) : d.val[i] > capacity

Occurrences(rs, n) ==
    Cardinality(UNION {{<<i, j>> : j \in {k \in 1..Len(rs[i]) : rs[i][k] = n}} :
                          i \in 1..Len(rs)})

\* C3: if a node of the demand table is visited by no route, or a customer
\* is visited more than once across the routes, is_feasible returns False
\* whatever the capacity.
C3_DetectsMissingOrDuplicated ==
    (/\ pc # "is_feasible"
     /\ AllRoutes(routes, DepotBounded)
     /\ \/ \E n \in DOMAIN demand : n \notin Visited(routes)
        \/ \E c \in Customers : Occurrences(routes, c) > 1)
        => (result.err = "none" /\ result.val = FALSE)


----------------------------------------------------------------------------
(* get_cvrp_cost, utils.py 223-253 *)

\* The coordinate table: node n lies at (3n, 4n), so that every distance
\* math.dist returns is an integer (5 times the difference of the nodes).
coordinates == [n \in Nodes |-> <<3 * n, 4 * n>>]

ISqrt(n) == CHOOSE r \in 0..n : r * r = n

dist(p, q) ==
    ISqrt((p[1] - q[1]) * (p[1] - q[1]) + (p[2] - q[2]) * (p[2] - q[2]))

RECURSIVE total_cost_loop(_, _, _)
total_cost_loop(sol, i, coords) ==
    IF i > Len(sol) - 1 THEN 0
    ELSE dist(coords[sol[i]], coords[sol[i + 1]])
             + total_cost_loop(sol, i + 1, coords)

\* routes_or_solution is [type |-> "list", nested |-> b, elems |-> s], a
\* list whose elements are all lists (nested) or all node indices, or
\* [type |-> "other"], any value that is no list.  uchoa keeps its default
\* False.
get_cvrp_cost(a, coords) ==
    IF a.type = "list"
    THEN IF a.elems = <<>> THEN Raise("IndexError")   \* routes_or_solution[0]
         ELSE IF a.nested
         THEN LET s == routes_to_solution(a.elems) IN
              IF s.err # "none" THEN s
              ELSE Ok(total_cost_loop(s.val, 1, coords))
         ELSE Ok(total_cost_loop(a.elems, 1, coords))
    ELSE Raise("ValueError")

----------------------------------------------------------------------------
(* get_cvrp_cost as a state machine: one call on a drawn input *)

OtherArgs == {[type |-> "other", nested |-> FALSE, elems |-> <<>>]}

FlatArgs == {[type |-> "list", nested |-> FALSE, elems |-> s] : s \in Solutions}

NestedArgs ==
    {[type |-> "list", nested |-> TRUE, elems |-> rl] : rl \in RouteLists \ {<<>>}}

CodecIdle == given = "none" /\ routes = <<>> /\ solution = <<>>

InitCost ==
    /\ pc = "get_cvrp_cost"
    /\ \/ arg \in OtherArgs
       \/ arg \in FlatArgs
       \/ arg \in NestedArgs
    /\ CodecIdle /\ FeasIdle /\ DepotIdle /\ RandomIdle /\ ParseIdle
    /\ result = NoResult

GetCvrpCost ==
    /\ pc = "get_cvrp_cost"
    /\ result' = get_cvrp_cost(arg, coordinates)
    /\ pc' = IF result'.err = "none" THEN "done" ELSE "raised"
    /\ UNCHANGED <<codecVars, feasVars, costVars, depotVars, randomVars, parseVars>>

NextCost == GetCvrpCost

SpecCost == InitCost /\ [][NextCost]_vars

----------------------------------------------------------------------------
(* Properties of get_cvrp_cost *)

\* C7: get_cvrp_cost fails with a ValueError when its first argument is
\* neither a nested list nor a flat list, and also when it is the empty
\* list; no other error is raised there and no cost is returned.
C7_ValueError ==
    (/\ pc # "get_cvrp_cost"
     /\ \/ arg.type # "list"
        \/ arg.elems = <<>>)
        => (pc = "raised" /\ result.err = "ValueError")


----------------------------------------------------------------------------
(* add_depot_to_routes, utils.py 27-50 *)

\* Lists are objects with identity: heap[OuterId] is the outer list, whose
\* elements are references to the route objects heap[1..MaxObjs] or
\* NotAList, a value that is no list.  The same route object may occur more
\* than once in the outer list.
OuterId == 0
NotAList == -1
ObjIds == 1..MaxObjs

\* the padding without route.insert(0, 0)
append_only(route) == route \o <<0>>

insert_and_append(route) == <<0>> \o route \o <<0>>

RECURSIVE add_depot_loop(_, _)
add_depot_loop(h, i) ==
    IF i > Len(h[OuterId]) THEN [err |-> "none", val |-> OuterId, heap |-> h]
    ELSE LET route == h[OuterId][i] IN
         IF route = NotAList
         THEN [err |-> "ValueError", val |-> <<>>, heap |-> h]
         ELSE add_depot_loop(
                  [h EXCEPT ![route] = insert_and_append(@)], i + 1)

add_depot_to_routes(h, p) ==
    IF p = NotAList THEN [err |-> "ValueError", val |-> <<>>, heap |-> h]
    ELSE add_depot_loop(h, 1)

----------------------------------------------------------------------------
(* add_depot_to_routes as a state machine: one call on a drawn heap *)

CustomerList == [i \in 1..MaxNode |-> i]

\* the runs a..b of the customers 1..MaxNode, the empty run included
Runs == {SubSeq(CustomerList, a, b) : a \in 1..(MaxNode + 1), b \in 0..MaxNode}

Heaps ==
    {[k \in {OuterId} \cup ObjIds |-> IF k = OuterId THEN outer ELSE objs[k]] :
        outer \in SeqsUpTo(ObjIds \cup {NotAList}, MaxRoutes),
        objs \in [ObjIds -> Runs]}

InitDepot ==
    /\ pc = "add_depot_to_routes"
    /\ heap \in Heaps
    /\ heap0 = heap
    /\ param \in {OuterId, NotAList}
    /\ CodecIdle /\ FeasIdle /\ CostIdle /\ RandomIdle /\ ParseIdle
    /\ result = NoResult

AddDepotToRoutes ==
    /\ pc = "add_depot_to_routes"
    /\ LET r == add_depot_to_routes(heap, param) IN
         /\ heap' = r.heap
         /\ result' = [err |-> r.err, val |-> r.val]
         /\ pc' = IF r.err = "none" THEN "done" ELSE "raised"
    /\ UNCHANGED <<codecVars, feasVars, costVars, heap0, param, randomVars, parseVars>>

NextDepot == AddDepotToRoutes

SpecDepot == InitDepot /\ [][NextDepot]_vars

----------------------------------------------------------------------------
(* Properties of add_depot_to_routes *)

ListOfLists(h) == \A i \in 1..Len(h[OuterId]) : h[OuterId][i] # NotAList

DistinctObjects(h) ==
    \A i, j \in 1..Len(h[OuterId]) : h[OuterId][i] = h[OuterId][j] => i = j

Padded ==
    /\ pc = "done"
    /\ \A i \in 1..Len(heap0[OuterId]) :
          heap[heap0[OuterId][i]] = <<0>> \o heap0[heap0[OuterId][i]] \o <<0>>
    /\ heap[OuterId] = heap0[OuterId]
    /\ result.val = param

\* C8 as stated: called with a list of lists, add_depot_to_routes leaves
\* every route equal to [0] + its original contents + [0], keeps the number
\* and order of the routes and returns the input list itself.
C8_PaddedAsStated ==
    (pc # "add_depot_to_routes" /\ param = OuterId /\ ListOfLists(heap0))
        => Padded

\* C8 amended: the same, called with a list of pairwise distinct list
\* objects (no route object occurs twice in the outer list).
C8_Padded ==
    (/\ pc # "add_depot_to_routes"
     /\ param = OuterId
     /\ ListOfLists(heap0)
     /\ DistinctObjects(heap0))
        => Padded

C8_Witness ==
    /\ pc = "done"
    /\ Len(heap0[OuterId]) = 2
    /\ DistinctObjects(heap0)
    /\ heap0[heap0[OuterId][1]] = <<1, 2>>
    /\ heap[heap0[OuterId][1]] = <<0, 1, 2, 0>>


----------------------------------------------------------------------------
(* get_random_solution, utils.py 385-409 *)

MinZeros == 1
MaxZeros == 5

\* list(range(N + 1)) followed by lst.append(0)
initial_list(n) == [i \in 1..(n + 1) |-> i - 1] \o <<0>>

\* the condition of the while loop: lst[index] == 0 or lst[index-1] == 0
\* (Python index i is element i + 1 here)
adjacent_to_depot_right_only(l, i) == l[i + 1] = 0

adjacent_to_depot(l, i) == l[i + 1] = 0 \/ l[i] = 0

\* lst.insert(index, 0)
insert(l, i) == SubSeq(l, 1, i) \o <<0>> \o SubSeq(l, i + 1, Len(l))

\* the values of random.randint(1, len(lst) - 1)
Indices(l) == 1..(Len(l) - 1)

otherVars == <<codecVars, feasVars, costVars, depotVars, parseVars>>

InitRandom ==
    /\ pc = "get_random_solution"
    /\ N \in 0..MaxN
    /\ lst = <<>>
    /\ num_zeros = 0
    /\ inserted = 0
    /\ index = 0
    /\ CodecIdle /\ FeasIdle /\ CostIdle /\ DepotIdle /\ ParseIdle
    /\ result = NoResult

\* lines 396-402: build the list and draw the number of depots to insert
Build ==
    /\ pc = "get_random_solution"
    /\ lst' = initial_list(N)
    /\ num_zeros' \in MinZeros..MaxZeros
    /\ pc' = "for"
    /\ UNCHANGED <<N, inserted, index, result, otherVars>>

\* lines 403-404: the next iteration of the for loop draws an index
Draw ==
    /\ pc = "for"
    /\ inserted < num_zeros
    /\ index' \in Indices(lst)
    /\ pc' = "while"
    /\ UNCHANGED <<N, lst, num_zeros, inserted, result, otherVars>>

\* lines 405-406: the index is adjacent to a depot, draw again
Redraw ==
    /\ pc = "while"
    /\ adjacent_to_depot(lst, index)
    /\ index' \in Indices(lst)
    /\ UNCHANGED <<pc, N, lst, num_zeros, inserted, result, otherVars>>

\* line 407: the index is valid, insert the depot
Insert ==
    /\ pc = "while"
    /\ ~adjacent_to_depot(lst, index)
    /\ lst' = insert(lst, index)
    /\ inserted' = inserted + 1
    /\ pc' = "for"
    /\ UNCHANGED <<N, num_zeros, index, result, otherVars>>

\* line 409: the for loop is over, return lst
Return ==
    /\ pc = "for"
    /\ inserted = num_zeros
    /\ result' = Ok(lst)
    /\ pc' = "done"
    /\ UNCHANGED <<N, lst, num_zeros, inserted, index, otherVars>>

NextRandom == Build \/ Draw \/ Redraw \/ Insert \/ Return

SpecRandom == InitRandom /\ [][NextRandom]_vars

\* a redraw that picks a position not adjacent to a depot
RedrawValid == Redraw /\ ~adjacent_to_depot(lst, index')

\* Fair random choice: the call keeps running, and a valid index that can
\* be drawn again and again is eventually drawn.
FairSpecRandom ==
    /\ SpecRandom
    /\ WF_vars(NextRandom)
    /\ SF_vars(RedrawValid)

----------------------------------------------------------------------------
(* Properties of get_random_solution *)

NoAdjacentDepots(l) == \A i \in 1..(Len(l) - 1) : ~(l[i] = 0 /\ l[i + 1] = 0)

ExactlyOnce(l, c) == Cardinality({i \in 1..Len(l) : l[i] = c}) = 1

\* C6: when get_random_solution(N) returns, the list starts and ends with
\* depot 0, holds every customer 1..N exactly once and has no two adjacent
\* depots (no empty route); no two depots are adjacent after each single
\* insertion either.
C6_RandomSolution ==
    /\ pc = "done" =>
          /\ result.val = lst
          /\ lst[1] = 0 /\ lst[Len(lst)] = 0
          /\ \A c \in 1..N : ExactlyOnce(lst, c)
          /\ \A i \in 1..Len(lst) : lst[i] \in 0..N
          /\ NoAdjacentDepots(lst)
          /\ AllRoutes(solution_to_routes(lst), LAMBDA r : Len(r) > 2)
    /\ inserted > 0 => NoAdjacentDepots(lst)

C6_Witness ==
    /\ pc = "done"
    /\ inserted = MaxZeros
    /\ N = 6
    /\ Len(solution_to_routes(lst)) = 6

\* C10: for every N >= 1 and every number of depots drawn from 1..5, under
\* fair random choice of indices get_random_solution eventually returns.
C10_Terminates == (N >= 1) => <>(pc = "done")


----------------------------------------------------------------------------
(* parse_vrplib_file, utils.py 105-184: the regular expressions *)

\* The text is a string; At(s, i) is its i-th character, "" past the end.
At(s, i) == IF i \in 1..Len(s) THEN SubSeq(s, i, i) ELSE ""

IsSpace(c) == c \in {" ", "\n", "\t", "\r"}
IsDigit(c) == c \in {"0", "1", "2", "3", "4", "5", "6", "7", "8", "9"}
IsNonSpace(c) == c # "" /\ ~IsSpace(c)

\* the character classes of the header patterns: "S" is \S, "d" is \d
InClass(cls, c) == IF cls = "d" THEN IsDigit(c) ELSE IsNonSpace(c)

\* the literal lit occurs in s at position i
LitAt(s, i, lit) ==
    /\ i + Len(lit) - 1 <= Len(s)
    /\ SubSeq(s, i, i + Len(lit) - 1) = lit

RECURSIVE SkipSpaces(_, _)
\* \s* from position i: the first position that holds no whitespace
SkipSpaces(s, i) == IF IsSpace(At(s, i)) THEN SkipSpaces(s, i + 1) ELSE i

RECURSIVE RunEnd(_, _, _)
\* a greedy run of characters of one class from position i: the position
\* after its last character (i itself when the run is empty)
RunEnd(s, i, cls) ==
    IF InClass(cls, At(s, i)) THEN RunEnd(s, i + 1, cls) ELSE i

NoMatch == [found |-> FALSE, group |-> ""]

\* key \s* : \s* (class+) tried at position i; the classes \s, ":" and
\* \S or \d are disjoint, so the greedy choice is the only one
HeaderAt(s, i, key, cls) ==
    IF ~LitAt(s, i, key) THEN NoMatch
    ELSE LET colon == SkipSpaces(s, i + Len(key)) IN
         IF At(s, colon) # ":" THEN NoMatch
         ELSE LET start == SkipSpaces(s, colon + 1)
                  stop == RunEnd(s, start, cls)
              IN IF stop = start THEN NoMatch
                 ELSE [found |-> TRUE, group |-> SubSeq(s, start, stop - 1)]

RECURSIVE SearchFrom(_, _, _, _)
\* re.search: the match at the leftmost position where the pattern matches
SearchFrom(s, i, key, cls) ==
    IF i > Len(s) THEN NoMatch
    ELSE LET m == HeaderAt(s, i, key, cls) IN
         IF m.found THEN m ELSE SearchFrom(s, i + 1, key, cls)

search_token(s, key) == SearchFrom(s, 1, key, "S")
search_digits(s, key) == SearchFrom(s, 1, key, "d")

RECURSIVE LastQuote(_, _, _)
\* "(.+)" from the opening quote at position q: "." stops at a newline and
\* ".+" is greedy, so the closing quote is the last one of the line
LastQuote(s, i, last) ==
    IF i > Len(s) \/ At(s, i) = "\n" THEN last
    ELSE LastQuote(s, i + 1, IF At(s, i) = "\"" THEN i ELSE last)

CommentAt(s, i) ==
    IF ~LitAt(s, i, "COMMENT") THEN NoMatch
    ELSE LET colon == SkipSpaces(s, i + 7) IN
         IF At(s, colon) # ":" THEN NoMatch
         ELSE LET q == SkipSpaces(s, colon + 1) IN
              IF At(s, q) # "\"" THEN NoMatch
              ELSE LET close == LastQuote(s, q + 1, 0) IN
                   IF close <= q + 1 THEN NoMatch
                   ELSE [found |-> TRUE, group |-> SubSeq(s, q + 1, close - 1)]

RECURSIVE SearchComment(_, _)
SearchComment(s, i) ==
    IF i > Len(s) THEN NoMatch
    ELSE LET m == CommentAt(s, i) IN
         IF m.found THEN m ELSE SearchComment(s, i + 1)

\* a section needs its opening marker somewhere in the text
RECURSIVE Contains(_, _, _)
Contains(s, i, lit) ==
    IF i > Len(s) THEN FALSE
    ELSE LitAt(s, i, lit) \/ Contains(s, i + 1, lit)

DigitValue(c) == CHOOSE d \in 0..9 : At("0123456789", d + 1) = c

RECURSIVE int(_)
\* int() of a string of decimal digits
int(str) ==
    IF Len(str) = 0 THEN 0
    ELSE 10 * int(SubSeq(str, 1, Len(str) - 1)) + DigitValue(At(str, Len(str)))

\* data[key] = value when the match was found, data unchanged otherwise
Put(d, key, m, value) == IF m.found THEN (key :> value) @@ d ELSE d

\* lines 131-156 and, for a text without section markers, 158-184
parse_vrplib_file(s) ==
    LET name_match == search_token(s, "NAME")
        comment_match == SearchComment(s, 1)
        type_match == search_token(s, "TYPE")
        dimension_match == search_digits(s, "DIMENSION")
        edge_weight_type_match == search_token(s, "EDGE_WEIGHT_TYPE")
        capacity_match == search_digits(s, "CAPACITY")
        d1 == Put(<<>>, "name", name_match, name_match.group)
        d2 == Put(d1, "comment", comment_match, comment_match.group)
        d3 == Put(d2, "type", type_match, type_match.group)
        d4 == Put(d3, "dimension", dimension_match, int(dimension_match.group))
        d5 == Put(d4, "edge_weight_type", edge_weight_type_match,
                  edge_weight_type_match.group)
        d6 == Put(d5, "capacity", capacity_match, int(capacity_match.group))
    IN d6

----------------------------------------------------------------------------
(* parse_vrplib_file as a state machine: one call on a drawn file *)

\* the header lines a file is made of: field, text of the line, value
HeaderLines ==
    [name |-> "NAME : X-n5-k2",
     comment |-> "COMMENT : \"demo\"",
     type |-> "TYPE : CVRP",
     dimension |-> "DIMENSION : 5",
     edge_weight_type |-> "EDGE_WEIGHT_TYPE : EUC_2D",
     capacity |-> "CAPACITY : 100"]

HeaderValues ==
    [name |-> "X-n5-k2",
     comment |-> "demo",
     type |-> "CVRP",
     dimension |-> 5,
     edge_weight_type |-> "EUC_2D",
     capacity |-> 100]

Fields == DOMAIN HeaderLines

\* every ordering of every subset of the header lines
LineOrders ==
    {ls \in UNION {[1..k -> Fields] : k \in 0..Cardinality(Fields)} :
        \A i, j \in 1..Len(ls) : ls[i] = ls[j] => i = j}

RECURSIVE Join(_, _)
Join(ls, i) ==
    IF i > Len(ls) THEN "" ELSE HeaderLines[ls[i]] \o "\n" \o Join(ls, i + 1)

InitParse ==
    /\ pc = "parse_vrplib_file"
    /\ lines \in LineOrders
    /\ content = Join(lines, 1)
    /\ data = <<>>
    /\ CodecIdle /\ FeasIdle /\ CostIdle /\ DepotIdle /\ RandomIdle
    /\ result = NoResult

ParseVrplibFile ==
    /\ pc = "parse_vrplib_file"
    /\ ~Contains(content, 1, "NODE_COORD_SECTION")
    /\ ~Contains(content, 1, "DEMAND_SECTION")
    /\ ~Contains(content, 1, "DEPOT_SECTION")
    /\ data' = parse_vrplib_file(content)
    /\ pc' = "done"
    /\ UNCHANGED <<lines, content, result>>
    /\ UNCHANGED <<codecVars, feasVars, costVars, depotVars, randomVars>>

NextParse == ParseVrplibFile

SpecParse == InitParse /\ [][NextParse]_vars

----------------------------------------------------------------------------
(* Properties of parse_vrplib_file *)

ClaimedFields == {"name", "type", "dimension", "edge_weight_type", "capacity"}

\* C9: the header extractions are independent and order-insensitive: for
\* every subset and ordering of the header lines the result has a field's
\* key exactly when the text has that field's line, and the value is the
\* token of that line.
C9_HeaderFields ==
    pc = "done" =>
        \A f \in ClaimedFields :
            /\ f \in DOMAIN data <=> f \in SetOf(lines)
            /\ f \in DOMAIN data => data[f] = HeaderValues[f]

====
